---- MODULE Spec2Model ----
(***************************************************************************)
(* NavierStokesSimulator (src/src/navierstokes.py): a 2D fluid solver on a *)
(* height x width grid.  The model keeps the object's attributes as state  *)
(* variables and translates each method into an operator on fields.        *)
(*                                                                         *)
(* Numbers.  The code computes in IEEE doubles.  The model computes in     *)
(* binary fixed point: a real r is the integer nearest to r * ONE, and     *)
(* every product and quotient is rounded to the nearest representable      *)
(* value, as a double operation is (at a coarser quantum).  Sums,          *)
(* differences and products by an integer are exact.  Fields are functions *)
(* on (0..height-1) \X (0..width-1), written field[i, j] as in the source. *)
(***************************************************************************)
EXTENDS Integers, Sequences, FiniteSets, TLC

VARIABLES
    status,     \* "none" before __init__, "ok" once built, "ValueError" if __init__ raised
    width,      \* self.width
    height,     \* self.height
    viscosity,  \* self.viscosity
    dt,         \* self.dt
    u,          \* self.u
    v,          \* self.v
    u_prev,     \* self.u_prev
    v_prev,     \* self.v_prev
    density,    \* self.density
    pc,         \* position inside step(): "idle" between calls
    call,       \* the call being served (or last served) and its arguments
    ncalls,     \* number of public calls made so far
    twin        \* a second simulator object (its fields), or <<>> when there is none

vars == <<status, width, height, viscosity, dt, u, v, u_prev, v_prev, density,
          pc, call, ncalls, twin>>

----------------------------------------------------------------------------
(* Bounds of the model. *)

FracBits == 10
MaxDim == 4
MaxCalls == 2

(* Smallest grid extent for which _set_boundary's reads field[1, 0] and
   field[0, 1] are inside the array. *)
MinDim == 2

(* range(20): the number of Gauss-Seidel sweeps of diffuse and of project. *)
Iterations == 20

----------------------------------------------------------------------------
(* Fixed-point arithmetic. *)

ONE == 2 ^ FracBits
HALF == ONE \div 2

(* a / b rounded to the nearest integer, b > 0. *)
RDiv(a, b) == (2 * a + b) \div (2 * b)

(* The fixed-point value of the decimal literal n / d. *)
Real(n, d) == RDiv(n * ONE, d)

Mul(a, b) == RDiv(a * b, ONE)
FDiv(a, b) == RDiv(a * ONE, b)

Max(a, b) == IF a >= b THEN a ELSE b
Min(a, b) == IF a <= b THEN a ELSE b

(* int(x) of a fixed-point x: truncation toward zero, an integer. *)
int(x) == IF x >= 0 THEN x \div ONE ELSE -((-x) \div ONE)

(* np.sqrt(n) for an integer n >= 0, rounded down to the quantum. *)
RECURSIVE SqrtSearch(_, _, _)
SqrtSearch(n, lo, hi) ==
    IF lo >= hi THEN lo
    ELSE LET mid == (lo + hi + 1) \div 2
         IN  IF mid * mid <= n * ONE * ONE
             THEN SqrtSearch(n, mid, hi)
             ELSE SqrtSearch(n, lo, mid - 1)
Sqrt(n) == SqrtSearch(n, 0, n * ONE)

----------------------------------------------------------------------------
(* Arrays. *)

(* numpy's index normalisation: a negative index counts from the end. *)
Idx(k, n) == IF k < 0 THEN n + k ELSE k

Cells(h, w) == (0 .. h - 1) \X (0 .. w - 1)

(* np.zeros((h, w)) *)
Zeros(h, w) == [c \in Cells(h, w) |-> 0]

(* The cells visited by "for i in range(1, height-1): for j in range(1, width-1)",
   in that (row-major) order. *)
InteriorSeq(h, w) ==
    IF h < 3 \/ w < 3 THEN << >>
    ELSE [k \in 1 .. (h - 2) * (w - 2) |->
             <<1 + ((k - 1) \div (w - 2)), 1 + ((k - 1) % (w - 2))>>]

Interior(h, w) == (1 .. h - 2) \X (1 .. w - 2)
Boundary(h, w) == Cells(h, w) \ Interior(h, w)
Corners(h, w) == {0, h - 1} \X {0, w - 1}

----------------------------------------------------------------------------
(* _set_boundary(field): the four edge assignments, then the four corner
   assignments, each reading the array as the previous ones left it. *)

(* SetEdges without "field[:, -1] = 0". *)
SetEdgesNoLastColumn(field, h, w) ==
    [c \in DOMAIN field |->
        IF \/ c[1] = 0 \/ c[1] = Idx(-1, h)
           \/ c[2] = 0
        THEN 0 ELSE field[c]]

(* SetEdges without "field[0, :] = 0". *)
SetEdgesNoFirstRow(field, h, w) ==
    [c \in DOMAIN field |->
        IF \/ c[1] = Idx(-1, h)
           \/ c[2] = 0 \/ c[2] = Idx(-1, w)
        THEN 0 ELSE field[c]]

SetEdges(field, h, w) ==
    [c \in DOMAIN field |->
        IF \/ c[1] = 0 \/ c[1] = Idx(-1, h)
           \/ c[2] = 0 \/ c[2] = Idx(-1, w)
        THEN 0 ELSE field[c]]

SetCorners(field, h, w) ==
    LET f1 == [field EXCEPT ![0, 0] =
                  Mul(HALF, field[1, 0] + field[0, 1])]
        f2 == [f1 EXCEPT ![0, Idx(-1, w)] =
                  Mul(HALF, f1[1, Idx(-1, w)] + f1[0, Idx(-2, w)])]
        f3 == [f2 EXCEPT ![Idx(-1, h), 0] =
                  Mul(HALF, f2[Idx(-2, h), 0] + f2[Idx(-1, h), 1])]
    IN  [f3 EXCEPT ![Idx(-1, h), Idx(-1, w)] =
            Mul(HALF, f3[Idx(-2, h), Idx(-1, w)] + f3[Idx(-1, h), Idx(-2, w)])]

set_boundary(field) == SetCorners(SetEdges(field, height, width), height, width)

----------------------------------------------------------------------------
(* diffuse(field, field_prev, diffusion_rate), for field and field_prev two
   distinct arrays (step() never passes the same array twice).  The result
   is the new content of field; field_prev is only read.

   The k loop: a sweep (with its _set_boundary) is a function of the array
   it starts from, so once a sweep returns the array unchanged the remaining
   sweeps return it unchanged too, and DiffuseIter stops there with the
   value the full range(20) loop ends with.  The comparison also makes TLC
   evaluate each sweep before it starts the next. *)

DiffuseCell(field, field_prev, a, c) ==
    [field EXCEPT ![c] =
        FDiv(field_prev[c] + Mul(a, field[c[1] + 1, c[2]] + field[c[1] - 1, c[2]]
                                    + field[c[1], c[2] + 1] + field[c[1], c[2] - 1]),
             ONE + 4 * a)]

RECURSIVE DiffuseSweep(_, _, _, _, _)
DiffuseSweep(field, field_prev, a, cells, n) ==
    IF n > Len(cells) THEN field
    ELSE DiffuseSweep(DiffuseCell(field, field_prev, a, cells[n]),
                      field_prev, a, cells, n + 1)

RECURSIVE DiffuseIter(_, _, _, _)
DiffuseIter(field, field_prev, a, k) ==
    IF k = 0 THEN field
    ELSE LET swept == set_boundary(DiffuseSweep(field, field_prev, a,
                                                InteriorSeq(height, width), 1))
         IN  IF swept = field THEN field
             ELSE DiffuseIter(swept, field_prev, a, k - 1)

(* diffuse with diffusion_rate left out of a. *)
diffuse_ignoring_rate(field, field_prev, diffusion_rate) ==
    LET a == dt * width * height
    IN  DiffuseIter(field_prev, field_prev, a, Iterations)

diffuse(field, field_prev, diffusion_rate) ==
    LET a == Mul(dt, diffusion_rate) * width * height
    IN  DiffuseIter(field_prev, field_prev, a, Iterations)

----------------------------------------------------------------------------
(* advect(field, field_prev, u, v), for field distinct from the other three
   arrays.  AdvectStencil is the loop body up to the interpolation weights. *)

(* ClampX without the upper bound: x = max(0.5, x). *)
ClampXNoUpper(x) == Max(HALF, x)

ClampX(x) == Max(HALF, Min(width * ONE - (ONE + HALF), x))
ClampY(y) == Max(HALF, Min(height * ONE - (ONE + HALF), y))

(* AdvectStencil with each pair of weights exchanged. *)
AdvectStencilWeightsSwapped(i, j, uij, vij) ==
    LET dt0 == Mul(dt, Sqrt(width * height))
        x == ClampX(j * ONE - Mul(dt0, uij))
        y == ClampY(i * ONE - Mul(dt0, vij))
        i0 == int(y)
        j0 == int(x)
        s0 == x - j0 * ONE
        t0 == y - i0 * ONE
    IN  [i0 |-> i0, j0 |-> j0, i1 |-> i0 + 1, j1 |-> j0 + 1,
         s1 |-> ONE - s0, s0 |-> s0, t1 |-> ONE - t0, t0 |-> t0]

AdvectStencil(i, j, uij, vij) ==
    LET dt0 == Mul(dt, Sqrt(width * height))
        x == ClampX(j * ONE - Mul(dt0, uij))
        y == ClampY(i * ONE - Mul(dt0, vij))
        i0 == int(y)
        j0 == int(x)
        s1 == x - j0 * ONE
        t1 == y - i0 * ONE
    IN  [i0 |-> i0, j0 |-> j0, i1 |-> i0 + 1, j1 |-> j0 + 1,
         s1 |-> s1, s0 |-> ONE - s1, t1 |-> t1, t0 |-> ONE - t1]

AdvectCell(field_prev, st) ==
    Mul(st.t0, Mul(st.s0, field_prev[st.i0, st.j0]) + Mul(st.s1, field_prev[st.i0, st.j1]))
    + Mul(st.t1, Mul(st.s0, field_prev[st.i1, st.j0]) + Mul(st.s1, field_prev[st.i1, st.j1]))

advect(field, field_prev, uu, vv) ==
    set_boundary(
        [c \in DOMAIN field |->
            IF c \in Interior(height, width)
            THEN AdvectCell(field_prev, AdvectStencil(c[1], c[2], uu[c], vv[c]))
            ELSE field[c]])

----------------------------------------------------------------------------
(* project(), as a function of (self.u, self.v): the new (u, v). *)

(* divergence with a one-sided difference of u: u[i, j] for u[i, j-1]. *)
divergence_one_sided(uu, vv) ==
    [c \in Cells(height, width) |->
        IF c \in Interior(height, width)
        THEN FDiv(Mul(-HALF, uu[c[1], c[2] + 1] - uu[c[1], c[2]]
                             + vv[c[1] + 1, c[2]] - vv[c[1] - 1, c[2]]),
                  Sqrt(width * height))
        ELSE 0]

divergence(uu, vv) ==
    [c \in Cells(height, width) |->
        IF c \in Interior(height, width)
        THEN FDiv(Mul(-HALF, uu[c[1], c[2] + 1] - uu[c[1], c[2] - 1]
                             + vv[c[1] + 1, c[2]] - vv[c[1] - 1, c[2]]),
                  Sqrt(width * height))
        ELSE 0]

PressureCell(p, div, c) ==
    [p EXCEPT ![c] =
        RDiv(div[c] + p[c[1] + 1, c[2]] + p[c[1] - 1, c[2]]
                    + p[c[1], c[2] + 1] + p[c[1], c[2] - 1], 4)]

RECURSIVE PressureSweep(_, _, _, _)
PressureSweep(p, div, cells, n) ==
    IF n > Len(cells) THEN p
    ELSE PressureSweep(PressureCell(p, div, cells[n]), div, cells, n + 1)

RECURSIVE PressureIter(_, _, _)
PressureIter(p, div, k) ==
    IF k = 0 THEN p
    ELSE LET swept == set_boundary(PressureSweep(p, div, InteriorSeq(height, width), 1))
         IN  IF swept = p THEN p
             ELSE PressureIter(swept, div, k - 1)

pressure(uu, vv) ==
    PressureIter(set_boundary(Zeros(height, width)),
                 set_boundary(divergence(uu, vv)), Iterations)

SubtractGradient(uu, vv, p) ==
    [u |-> [c \in DOMAIN uu |->
               IF c \in Interior(height, width)
               THEN uu[c] - Mul(HALF, p[c[1], c[2] + 1] - p[c[1], c[2] - 1]) * width
               ELSE uu[c]],
     v |-> [c \in DOMAIN vv |->
               IF c \in Interior(height, width)
               THEN vv[c] - Mul(HALF, p[c[1] + 1, c[2]] - p[c[1] - 1, c[2]]) * height
               ELSE vv[c]]]

project(uu, vv) ==
    LET g == SubtractGradient(uu, vv, pressure(uu, vv))
    IN  [u |-> set_boundary(g.u), v |-> set_boundary(g.v)]

----------------------------------------------------------------------------
(* __init__(width, height, viscosity, dt).  There is no check of the
   arguments; np.zeros raises ValueError for a negative extent and builds an
   empty array for a zero one. *)

ZerosRaises(h, w) == h < 0 \/ w < 0

init(w, h, visc, d) ==
    [width |-> w, height |-> h, viscosity |-> visc, dt |-> d,
     u |-> Zeros(h, w), v |-> Zeros(h, w),
     u_prev |-> Zeros(h, w), v_prev |-> Zeros(h, w),
     density |-> Zeros(h, w)]

(* The arguments the model constructs simulators with. *)
Dims == MinDim .. MaxDim
DtValues == {Real(1, 10)}
ViscosityValues == {0, Real(1, 10)}

----------------------------------------------------------------------------
(* The public calls on a constructed simulator. *)

(* InRange without the lower bounds: x < width and y < height. *)
InRangeNoLowerBound(x, y) == x < width /\ y < height

InRange(x, y) == 0 <= x /\ x < width /\ 0 <= y /\ y < height

(* add_density(x, y, amount) on the arrays s. *)
add_density(s, x, y, amount) ==
    IF InRange(x, y)
    THEN [s EXCEPT !.density[Idx(y, height), Idx(x, width)] = @ + amount]
    ELSE s

(* add_velocity(x, y, amount_x, amount_y) on the arrays s. *)
add_velocity(s, x, y, amount_x, amount_y) ==
    IF InRange(x, y)
    THEN [s EXCEPT !.u[Idx(y, height), Idx(x, width)] = @ + amount_x,
                   !.v[Idx(y, height), Idx(x, width)] = @ + amount_y]
    ELSE s

----------------------------------------------------------------------------
(* step(): ten statements, one action each.  A stage is a function of the
   simulator's arrays s = [u, v, u_prev, v_prev, density]; density_prev is a
   local copy of density taken right before the call that reads it. *)

DensityRate == Real(1, 100)

SaveVelocity(s) == [s EXCEPT !.u_prev = s.u, !.v_prev = s.v]
DiffuseU(s) == [s EXCEPT !.u = diffuse(s.u, s.u_prev, viscosity)]
DiffuseV(s) == [s EXCEPT !.v = diffuse(s.v, s.v_prev, viscosity)]
Project(s) == LET r == project(s.u, s.v) IN [s EXCEPT !.u = r.u, !.v = r.v]
AdvectU(s) == [s EXCEPT !.u = advect(s.u, s.u_prev, s.u_prev, s.v_prev)]
(* AdvectV traced along the current u (already advected), not u_prev. *)
AdvectVAlongCurrentU(s) == [s EXCEPT !.v = advect(s.v, s.v_prev, s.u, s.v_prev)]
AdvectV(s) == [s EXCEPT !.v = advect(s.v, s.v_prev, s.u_prev, s.v_prev)]
DiffuseDensity(s) == [s EXCEPT !.density = diffuse(s.density, s.density, DensityRate)]
(* AdvectDensity with its result stored in u instead of density. *)
AdvectDensityIntoU(s) == [s EXCEPT !.u = advect(s.u, s.density, s.u, s.v)]
AdvectDensity(s) == [s EXCEPT !.density = advect(s.density, s.density, s.u, s.v)]

(* The statements of step() in program order, by label. *)
StepOrder == <<"save1", "diffuse_u", "diffuse_v", "project1", "save2",
               "advect_u", "advect_v", "project2", "diffuse_density",
               "advect_density">>

Stage(label, s) ==
    CASE label = "save1" -> SaveVelocity(s)
      [] label = "diffuse_u" -> DiffuseU(s)
      [] label = "diffuse_v" -> DiffuseV(s)
      [] label = "project1" -> Project(s)
      [] label = "save2" -> SaveVelocity(s)
      [] label = "advect_u" -> AdvectU(s)
      [] label = "advect_v" -> AdvectV(s)
      [] label = "project2" -> Project(s)
      [] label = "diffuse_density" -> DiffuseDensity(s)
      [] label = "advect_density" -> AdvectDensity(s)

(* Where control is after the statement at position k of StepOrder. *)
After(k) == IF k < Len(StepOrder) THEN StepOrder[k + 1] ELSE "idle"

Self == [u |-> u, v |-> v, u_prev |-> u_prev, v_prev |-> v_prev, density |-> density]

Store(s) ==
    /\ u' = s.u /\ v' = s.v /\ u_prev' = s.u_prev /\ v_prev' = s.v_prev
    /\ density' = s.density

(* A public call, made between steps. *)
Enter(c) ==
    /\ status = "ok" /\ pc = "idle" /\ ncalls < MaxCalls
    /\ call' = c
    /\ ncalls' = ncalls + 1
    /\ UNCHANGED <<status, width, height, viscosity, dt>>

AddDensity(x, y, amount) ==
    /\ Enter([op |-> "add_density", x |-> x, y |-> y])
    /\ Store(add_density(Self, x, y, amount))
    /\ UNCHANGED <<pc, twin>>

AddVelocity(x, y, amount_x, amount_y) ==
    /\ Enter([op |-> "add_velocity", x |-> x, y |-> y])
    /\ Store(add_velocity(Self, x, y, amount_x, amount_y))
    /\ UNCHANGED <<pc, twin>>

(* The call of step(): its first statement. *)
Step ==
    /\ Enter([op |-> "step"])
    /\ Store(Stage(StepOrder[1], Self))
    /\ pc' = After(1)
    /\ UNCHANGED twin

(* The statement at position k > 1 of step(). *)
StepStatement(k) ==
    /\ pc = StepOrder[k]
    /\ Store(Stage(StepOrder[k], Self))
    /\ pc' = After(k)
    /\ UNCHANGED <<status, width, height, viscosity, dt, call, ncalls, twin>>

----------------------------------------------------------------------------
(* Spec: a simulator as constructed, driven through its public calls. *)

(* Where the model injects, as (x, y): outside the grid on each side, on each
   edge and two corners, and inside. *)
Points ==
    {<<-1, -1>>, <<-1, 1>>, <<1, -1>>, <<width, 1>>, <<1, height>>,
     <<0, 0>>, <<width - 1, height - 1>>,
     <<0, 1>>, <<1, 0>>, <<width - 1, 1>>, <<1, height - 1>>,
     <<1, 1>>, <<width - 2, height - 2>>}
DensityAmounts == {Real(1, 1)}
VelocityAmounts == {<<Real(1, 1), Real(-50, 1)>>}

Constructed(w, h, visc, d) ==
    LET s == init(w, h, visc, d)
    IN  /\ status = "ok"
        /\ width = s.width /\ height = s.height
        /\ viscosity = s.viscosity /\ dt = s.dt
        /\ u = s.u /\ v = s.v /\ u_prev = s.u_prev /\ v_prev = s.v_prev
        /\ density = s.density

Init ==
    /\ \E w \in Dims, h \in Dims, visc \in ViscosityValues, d \in DtValues :
           Constructed(w, h, visc, d)
    /\ pc = "idle"
    /\ call = [op |-> "__init__"]
    /\ ncalls = 0
    /\ twin = << >>

Next ==
    \/ \E pt \in Points, amount \in DensityAmounts :
           AddDensity(pt[1], pt[2], amount)
    \/ \E pt \in Points, a \in VelocityAmounts :
           AddVelocity(pt[1], pt[2], a[1], a[2])
    \/ Step
    \/ \E k \in 2 .. Len(StepOrder) : StepStatement(k)

Spec == Init /\ [][Next]_vars

----------------------------------------------------------------------------
(* SpecCtor: the constructor, called with arguments of either sign. *)

CtorDims == -1 .. MaxDim
CtorDtValues == {Real(-1, 10), 0, Real(1, 10)}

InitCtor ==
    /\ status = "none"
    /\ width = 0 /\ height = 0 /\ viscosity = 0 /\ dt = 0
    /\ u = << >> /\ v = << >> /\ u_prev = << >> /\ v_prev = << >>
    /\ density = << >>
    /\ pc = "idle"
    /\ call = [op |-> "none"]
    /\ ncalls = 0
    /\ twin = << >>

(* NavierStokesSimulator(w, h, visc, d) *)
Construct(w, h, visc, d) ==
    /\ status = "none"
    /\ call' = [op |-> "__init__", width |-> w, height |-> h,
                viscosity |-> visc, dt |-> d]
    /\ ncalls' = ncalls + 1
    /\ IF ZerosRaises(h, w)
       THEN /\ status' = "ValueError"
            /\ UNCHANGED <<width, height, viscosity, dt, u, v, u_prev, v_prev, density>>
       ELSE LET s == init(w, h, visc, d)
            IN  /\ status' = "ok"
                /\ width' = s.width /\ height' = s.height
                /\ viscosity' = s.viscosity /\ dt' = s.dt
                /\ u' = s.u /\ v' = s.v /\ u_prev' = s.u_prev /\ v_prev' = s.v_prev
                /\ density' = s.density
    /\ UNCHANGED <<pc, twin>>

NextCtor ==
    \E w \in CtorDims, h \in CtorDims, visc \in ViscosityValues, d \in CtorDtValues :
        Construct(w, h, visc, d)

SpecCtor == InitCtor /\ [][NextCtor]_vars

----------------------------------------------------------------------------
(* SpecOps: one direct call of a solver method on a simulator whose arrays
   hold arbitrary contents (boundary cells included). *)

Spike(h, w, c0, val) == [c \in Cells(h, w) |-> IF c = c0 THEN val ELSE 0]

(* Every cell nonzero, no two cells equal, signs alternating:
   k/4, -2k/4, 3k/4, ... in row-major order. *)
Ramp(h, w, k) ==
    [c \in Cells(h, w) |->
        LET n == c[1] * w + c[2] + 1
        IN  (IF n % 2 = 0 THEN -1 ELSE 1) * k * n * (ONE \div 4)]

VelocityValues == {Real(1, 1), Real(50, 1), Real(-50, 1)}

(* The arrays that are zero but for one of the given cells. *)
Spikes(h, w, cells) ==
    {Zeros(h, w)} \cup {Spike(h, w, c, val) : c \in cells, val \in VelocityValues}

InitOps ==
    /\ status = "ok"
    /\ width \in Dims /\ height \in Dims
    /\ viscosity = Real(1, 10)
    /\ dt \in DtValues
    /\ u \in Spikes(height, width, Cells(height, width))
    /\ v \in Spikes(height, width, Interior(height, width))
    /\ u_prev = Ramp(height, width, 1)
    /\ v_prev = Zeros(height, width)
    /\ density = Ramp(height, width, 2)
    /\ pc = "idle"
    /\ call = [op |-> "none"]
    /\ ncalls = 0
    /\ twin = << >>

Called(c) ==
    /\ status = "ok" /\ call.op = "none"
    /\ call' = c
    /\ ncalls' = ncalls + 1
    /\ UNCHANGED <<status, width, height, viscosity, dt, pc, twin>>

(* self._set_boundary(self.u) *)
CallSetBoundaryU ==
    /\ Called([op |-> "set_boundary", field |-> "u"])
    /\ u' = set_boundary(u)
    /\ UNCHANGED <<v, u_prev, v_prev, density>>

(* self._set_boundary(self.u_prev) *)
CallSetBoundaryUPrev ==
    /\ Called([op |-> "set_boundary", field |-> "u_prev"])
    /\ u_prev' = set_boundary(u_prev)
    /\ UNCHANGED <<u, v, v_prev, density>>

(* self.diffuse(self.u, self.u_prev, rate) *)
CallDiffuse(rate) ==
    /\ Called([op |-> "diffuse", rate |-> rate])
    /\ u' = diffuse(u, u_prev, rate)
    /\ UNCHANGED <<v, u_prev, v_prev, density>>

(* self.advect(self.density, self.u_prev, self.u, self.v) *)
CallAdvect ==
    /\ Called([op |-> "advect"])
    /\ density' = advect(density, u_prev, u, v)
    /\ UNCHANGED <<u, v, u_prev, v_prev>>

(* self.project() *)
CallProject ==
    /\ Called([op |-> "project"])
    /\ LET r == project(u, v) IN u' = r.u /\ v' = r.v
    /\ UNCHANGED <<u_prev, v_prev, density>>

DiffusionRates == {0, DensityRate, Real(1, 10)}

NextOps ==
    \/ CallSetBoundaryU
    \/ CallSetBoundaryUPrev
    \/ \E rate \in DiffusionRates : CallDiffuse(rate)
    \/ CallAdvect
    \/ CallProject

SpecOps == InitOps /\ [][NextOps]_vars

----------------------------------------------------------------------------
(* SpecPair: two simulators built with the same arguments, given the same
   add_velocity and step() calls; add_density is called on either one alone.
   The twin starts with a density of its own. *)

InitPair ==
    /\ \E w \in Dims, h \in Dims, d \in DtValues :
           /\ Constructed(w, h, Real(1, 10), d)
           /\ twin = [u |-> Zeros(h, w), v |-> Zeros(h, w),
                      u_prev |-> Zeros(h, w), v_prev |-> Zeros(h, w),
                      density |-> Ramp(h, w, 2)]
    /\ pc = "idle"
    /\ call = [op |-> "__init__"]
    /\ ncalls = 0

PairAddVelocity(x, y, amount_x, amount_y) ==
    /\ Enter([op |-> "add_velocity", x |-> x, y |-> y])
    /\ Store(add_velocity(Self, x, y, amount_x, amount_y))
    /\ twin' = add_velocity(twin, x, y, amount_x, amount_y)
    /\ UNCHANGED pc

SelfAddDensity(x, y, amount) ==
    /\ Enter([op |-> "add_density", on |-> "self", x |-> x, y |-> y])
    /\ Store(add_density(Self, x, y, amount))
    /\ UNCHANGED <<pc, twin>>

TwinAddDensity(x, y, amount) ==
    /\ Enter([op |-> "add_density", on |-> "twin", x |-> x, y |-> y])
    /\ twin' = add_density(twin, x, y, amount)
    /\ UNCHANGED <<u, v, u_prev, v_prev, density, pc>>

PairStep ==
    /\ Enter([op |-> "step"])
    /\ Store(Stage(StepOrder[1], Self))
    /\ twin' = Stage(StepOrder[1], twin)
    /\ pc' = After(1)

PairStepStatement(k) ==
    /\ pc = StepOrder[k]
    /\ Store(Stage(StepOrder[k], Self))
    /\ twin' = Stage(StepOrder[k], twin)
    /\ pc' = After(k)
    /\ UNCHANGED <<status, width, height, viscosity, dt, call, ncalls>>

NextPair ==
    \/ \E pt \in Points, a \in VelocityAmounts :
           PairAddVelocity(pt[1], pt[2], a[1], a[2])
    \/ \E pt \in Points, amount \in DensityAmounts :
           SelfAddDensity(pt[1], pt[2], amount)
    \/ \E pt \in Points, amount \in DensityAmounts :
           TwinAddDensity(pt[1], pt[2], amount)
    \/ PairStep
    \/ \E k \in 2 .. Len(StepOrder) : PairStepStatement(k)

SpecPair == InitPair /\ [][NextPair]_vars

----------------------------------------------------------------------------
(* Vocabulary of the properties. *)

EdgeCells == Boundary(height, width) \ Corners(height, width)
HasInterior == height >= 3 /\ width >= 3
OutOfRange(x, y) == x < 0 \/ x >= width \/ y < 0 \/ y >= height
BoundaryZero(f) == \A c \in Boundary(height, width) : f[c] = 0

(* The array a set_boundary call names. *)
Named(name) == IF name = "u" THEN u ELSE u_prev

(* Twice the corner is the sum of its two neighbours along the boundary. *)
CornerIsAverage(f, ci, cj, ni, nj) == 2 * f[ci, cj] = f[ni, cj] + f[ci, nj]

(* The sum of squares of the interior cells of d. *)
RECURSIVE SumSquares(_, _, _)
SumSquares(d, cells, n) ==
    IF n > Len(cells) THEN 0
    ELSE d[cells[n]] * d[cells[n]] + SumSquares(d, cells, n + 1)
L2sq(d) == SumSquares(d, InteriorSeq(height, width), 1)

(* The central differences project() sums are zero at every interior cell. *)
DivergenceFree(uu, vv) ==
    \A c \in Interior(height, width) :
        uu[c[1], c[2] + 1] - uu[c[1], c[2] - 1]
        + vv[c[1] + 1, c[2]] - vv[c[1] - 1, c[2]] = 0

NonzeroInterior(uu, vv) ==
    \E c \in Interior(height, width) : uu[c] # 0 \/ vv[c] # 0

StencilInGrid(st) ==
    /\ 0 <= st.i0 /\ st.i0 < st.i1 /\ st.i1 <= height - 1
    /\ 0 <= st.j0 /\ st.j0 < st.j1 /\ st.j1 <= width - 1
    /\ \A wt \in {st.s0, st.s1, st.t0, st.t1} : 0 <= wt /\ wt <= ONE
    /\ st.s0 + st.s1 = ONE
    /\ st.t0 + st.t1 = ONE

----------------------------------------------------------------------------
(* C1 (SpecOps).  After a call of _set_boundary(field), whatever the array
   held, every edge cell that is not a corner is zero, and each corner is
   the average of its two neighbours along the boundary, as they are in the
   array the call leaves. *)
C1_BoundaryInvariant ==
    call.op = "set_boundary" =>
        LET f == Named(call.field)
            h == height
            w == width
        IN  /\ \A c \in EdgeCells : f[c] = 0
            /\ CornerIsAverage(f, 0, 0, 1, 1)
            /\ CornerIsAverage(f, 0, w - 1, 1, w - 2)
            /\ CornerIsAverage(f, h - 1, 0, h - 2, 1)
            /\ CornerIsAverage(f, h - 1, w - 1, h - 2, w - 2)

(* _set_boundary has run on an array that held a nonzero value in every
   cell, on a grid with edge cells and an interior. *)
C1_Witness ==
    /\ call.op = "set_boundary" /\ call.field = "u_prev"
    /\ HasInterior
    /\ u_prev[1, 1] # 0
    /\ u_prev[0, 1] = 0

(* C2 (Spec).  add_density and add_velocity with (x, y) outside
   [0, width) x [0, height), negative coordinates included, change no cell
   of density, u, v, u_prev, v_prev and raise nothing. *)
C2_InjectionNoOp ==
    [][(/\ ncalls' = ncalls + 1
        /\ call'.op \in {"add_density", "add_velocity"}
        /\ OutOfRange(call'.x, call'.y))
       => /\ UNCHANGED <<density, u, v, u_prev, v_prev>>
          /\ status' = "ok"]_vars

(* An injection with a negative coordinate was made on a simulator whose
   density already held a value. *)
C2_Witness ==
    /\ call.op \in {"add_density", "add_velocity"}
    /\ call.x < 0
    /\ density # Zeros(height, width)

(* C3 (SpecCtor).  The constructor called with a non-positive width, height
   or dt raises and produces no simulator. *)
C3_FailFast ==
    (/\ call.op = "__init__"
     /\ (call.width <= 0 \/ call.height <= 0 \/ call.dt <= 0))
    => status # "ok"

(* C4 (Spec).  step() runs exactly: save (u, v) into (u_prev, v_prev);
   diffuse u, then v, from the snapshot at rate viscosity; project; save
   again; advect u, then v, both along (u_prev, v_prev); project; diffuse
   density; advect density along the current (u, v).  Each statement changes
   only the arrays named, and nothing else runs in between. *)
C4_StepSequence ==
    [][LET p == project(u, v)
       IN
       /\ (pc = "idle" /\ pc' # "idle")
          => /\ pc' = "diffuse_u" /\ call'.op = "step"
             /\ u_prev' = u /\ v_prev' = v
             /\ UNCHANGED <<u, v, density>>
       /\ pc = "diffuse_u"
          => /\ pc' = "diffuse_v"
             /\ u' = diffuse(u, u_prev, viscosity)
             /\ UNCHANGED <<v, u_prev, v_prev, density>>
       /\ pc = "diffuse_v"
          => /\ pc' = "project1"
             /\ v' = diffuse(v, v_prev, viscosity)
             /\ UNCHANGED <<u, u_prev, v_prev, density>>
       /\ pc = "project1"
          => /\ pc' = "save2"
             /\ u' = p.u /\ v' = p.v
             /\ UNCHANGED <<u_prev, v_prev, density>>
       /\ pc = "save2"
          => /\ pc' = "advect_u"
             /\ u_prev' = u /\ v_prev' = v
             /\ UNCHANGED <<u, v, density>>
       /\ pc = "advect_u"
          => /\ pc' = "advect_v"
             /\ u' = advect(u, u_prev, u_prev, v_prev)
             /\ UNCHANGED <<v, u_prev, v_prev, density>>
       /\ pc = "advect_v"
          => /\ pc' = "project2"
             /\ v' = advect(v, v_prev, u_prev, v_prev)
             /\ UNCHANGED <<u, u_prev, v_prev, density>>
       /\ pc = "project2"
          => /\ pc' = "diffuse_density"
             /\ u' = p.u /\ v' = p.v
             /\ UNCHANGED <<u_prev, v_prev, density>>
       /\ pc = "diffuse_density"
          => /\ pc' = "advect_density"
             /\ density' = diffuse(density, density, DensityRate)
             /\ UNCHANGED <<u, v, u_prev, v_prev>>
       /\ pc = "advect_density"
          => /\ pc' = "idle"
             /\ density' = advect(density, density, u, v)
             /\ UNCHANGED <<u, v, u_prev, v_prev>>
      ]_vars

(* A step() has run to its end on a simulator with velocity, and the
   advection moved u away from the snapshot. *)
C4_Witness ==
    /\ pc = "idle" /\ call.op = "step"
    /\ HasInterior
    /\ u # Zeros(height, width)
    /\ u # u_prev

(* C5 (SpecPair).  Density never influences velocity: two simulators with
   the same parameters, given the same add_velocity and step() calls and
   different densities, hold the same u and v after every call (and
   statement). *)
C5_NonInterference == twin.u = u /\ twin.v = v

(* Both simulators have finished a step() with velocity, holding different
   densities. *)
C5_Witness ==
    /\ pc = "idle" /\ call.op = "step"
    /\ NonzeroInterior(u, v)
    /\ \E c \in Interior(height, width) : twin.density[c] # density[c]

(* C6 as stated (SpecOps).  For a velocity field with a nonzero interior
   cell, the interior divergence after project() has a strictly smaller L2
   norm than before. *)
C6_StrictlySmaller ==
    [][(call'.op = "project" /\ NonzeroInterior(u, v))
       => L2sq(divergence(u', v')) < L2sq(divergence(u, v))]_vars

(* C6 as amended (SpecOps).  When the divergence project() computes is zero
   at every interior cell, project() leaves every interior cell of u and v
   as it was; with zero boundary cells too the divergence is the same after
   as before, not smaller. *)
C6_DivergenceFreeKept ==
    [][(call'.op = "project" /\ DivergenceFree(u, v))
       => /\ \A c \in Interior(height, width) : u'[c] = u[c] /\ v'[c] = v[c]
          /\ (BoundaryZero(u) /\ BoundaryZero(v))
             => divergence(u', v') = divergence(u, v)]_vars

(* project() has run on a field with a nonzero interior cell whose
   divergence is zero everywhere, on a grid with four interior cells. *)
C6_Witness ==
    /\ call.op = "project"
    /\ height = 4 /\ width = 4
    /\ u[1, 1] # 0 /\ v[2, 2] # 0
    /\ DivergenceFree(u, v)

(* C7 (Spec).  After every step(), whatever add_density, add_velocity and
   step() calls came before (injections at boundary cells included), every
   boundary cell of density, u and v is zero, corners included. *)
C7_BoundaryAfterStep ==
    (pc = "idle" /\ call.op = "step")
    => BoundaryZero(density) /\ BoundaryZero(u) /\ BoundaryZero(v)

(* A step() has finished and left a nonzero interior value. *)
C7_Witness ==
    /\ pc = "idle" /\ call.op = "step"
    /\ ncalls = 2
    /\ \E c \in Interior(height, width) : density[c] # 0 \/ v[c] # 0

(* C8 (SpecOps).  diffuse(field, field_prev, 0) leaves every interior cell
   of field equal to that cell of field_prev, and does not modify
   field_prev. *)
C8_ZeroRate ==
    [][(call'.op = "diffuse" /\ call'.rate = 0)
       => /\ \A c \in Interior(height, width) : u'[c] = u_prev[c]
          /\ u_prev' = u_prev]_vars

(* diffuse at rate 0 has run: an interior cell holds field_prev's nonzero
   value and a boundary cell was re-set. *)
C8_Witness ==
    /\ call.op = "diffuse" /\ call.rate = 0
    /\ HasInterior
    /\ u[1, 1] = u_prev[1, 1] /\ u[1, 1] # 0
    /\ u[0, 1] # u_prev[0, 1]

(* C9 (SpecOps).  With u = v = 0, advect(field, field_prev, u, v) sets every
   interior cell of field to that cell of field_prev: the sampling point is
   the cell itself, s0 = t0 = 1 and s1 = t1 = 0. *)
C9_ZeroVelocity ==
    [][(/\ call'.op = "advect"
        /\ u = Zeros(height, width) /\ v = Zeros(height, width))
       => \A c \in Interior(height, width) :
              /\ density'[c] = u_prev[c]
              /\ AdvectStencil(c[1], c[2], u[c], v[c]) =
                     [i0 |-> c[1], j0 |-> c[2], i1 |-> c[1] + 1, j1 |-> c[2] + 1,
                      s1 |-> 0, s0 |-> ONE, t1 |-> 0, t0 |-> ONE]]_vars

(* advect has run with zero velocity and copied a nonzero interior value
   that the field did not hold before. *)
C9_Witness ==
    /\ call.op = "advect"
    /\ u = Zeros(height, width) /\ v = Zeros(height, width)
    /\ HasInterior
    /\ density[1, 1] = u_prev[1, 1] /\ density[1, 1] # 0

(* C10 (SpecOps).  For every interior cell and every velocity there, the
   clamped source position gives 0 <= i0 < i1 <= height-1 and
   0 <= j0 < j1 <= width-1, weights in [0, 1], s0 + s1 = 1, t0 + t1 = 1. *)
C10_StencilInGrid ==
    \A c \in Interior(height, width) :
        StencilInGrid(AdvectStencil(c[1], c[2], u[c], v[c]))

(* advect has run with a velocity that traces far outside the grid, on
   both sides. *)
C10_Witness ==
    /\ call.op = "advect"
    /\ \E c \in Interior(height, width) : u[c] = Real(-50, 1)
    /\ \E c \in Interior(height, width) : v[c] = Real(50, 1)

====
